---- MODULE Spec2Model ----
(***************************************************************************)
(* Model of the Xopt driver (xopt/base.py): the Dataset it owns, the copy  *)
(* of it held by the generator, and the operations that change them.       *)
(*                                                                         *)
(* Optional values (Python None) are sequences of length at most one:      *)
(* None is <<>>, a present value v is <<v>>.  A table (DataFrame) is a     *)
(* sequence of rows in storage order; each row carries its index label.    *)
(* Floats are counted in units of 10^-11, one decimal place finer than     *)
(* what DataFrame.to_json keeps by default.                                *)
(***************************************************************************)
EXTENDS Integers, Sequences, FiniteSets, TLC

\* ------------------------------------------------------------- bounds
\* Most rows a Dataset holds in the model.
MaxRows == 2
\* Most rows of a table supplied at construction; its labels are below MaxInitRows.
MaxInitRows == 2
\* Longest list an evaluator returns in one output cell.
MaxListLen == 2
\* Largest evaluator.max_workers.
MaxWorkers == 2
\* Largest max_evaluations.
MaxEvaluations == 1
\* Candidates a generator can propose before it is exhausted.
MaxGenerate == 2
\* Most rows or candidates a caller passes in one call.
MaxChunk == MaxWorkers
\* Threads that may call the driver at the same time.
MaxThreads == 2

\* ------------------------------------------------------------- values
None == <<>>
Some(v) == <<v>>
IsNone(o) == o = <<>>
Get(o) == o[1]

\* Variable values a candidate may carry: one that ten decimal places hold
\* exactly, one that they do not.
Xs == {10, 23}

\* The problem definition: one variable, one constant, one objective, one constraint.
VOCS == [variables |-> [x |-> <<0, 50>>], constants |-> [c |-> 70],
         objectives |-> {"y1"}, constraints |-> {"y2"}]

\* A value outside the bounds of the declared variable.
XBad == VOCS.variables.x[2] + 1

\* The declared output columns.
Outputs == {"y1", "y2"}

\* An output cell: a scalar number <<v>>, a non-numeric scalar <<>>, or a list.
Scalar(v) == [list |-> FALSE, v |-> <<v>>]
NaN == [list |-> FALSE, v |-> <<>>]
ListCell(s) == [list |-> TRUE, v |-> s]

\* The registered generator names and the capabilities of the class behind each.
GeneratorNames == {"random", "neldermead"}
StateOwner(name) == name = "neldermead"
SequentialGenerator(name) == name = "neldermead"
get_generator(name) == name

\* ------------------------------------------------------------- tables
Range(s) == {s[i] : i \in 1..Len(s)}
Labels(t) == [i \in 1..Len(t) |-> t[i].idx]

\* new_data.index = np.arange(start, start + len(new_data))
Reindex(rows, start) == [i \in 1..Len(rows) |-> [rows[i] EXCEPT !.idx = start + i - 1]]

\* A concatenation that puts the new rows first.
Concat_new_first(a, b) == b \o a

\* pd.concat([a, b], axis=0)
Concat(a, b) == a \o b

\* data.drop(labels=indices): every row whose label is in indices goes.
Drop(t, indices) == SelectSeq(t, LAMBDA r : r.idx \notin indices)

\* ------------------------------------------------------------- generator
\* Generator.add_data: the accumulative mirror update.  A sequential
\* generator's outstanding candidate counts as evaluated once data arrives.
Generator_add_data(g, new_data) ==
  [g EXCEPT !.data = IF IsNone(g.data) THEN Some(new_data)
                     ELSE Some(Concat(Get(g.data), new_data)),
            !.last_candidate = None,
            !.mirrored_by = "add_data"]

\* StateOwner.set_data: the mirror is replaced wholesale.
Generator_set_data(g, v) == [g EXCEPT !.data = v, !.mirrored_by = "set_data"]

\* Non-empty sequences over S of length at most n.
SeqUpTo(S, n) == UNION {[1..k -> S] : k \in 1..n}

\* The candidate a generator proposes.
Proposal == CHOOSE x \in Xs : \A y \in Xs : x <= y

\* Generator.generate(n): the possible answers, each with the generator's
\* next state.  None once the generator is exhausted, else at most n
\* candidates; a sequential generator proposes one and keeps it as outstanding.
generate(g, n) ==
  IF g.left = 0 THEN {[samples |-> None, g |-> g]}
  ELSE IF SequentialGenerator(g.name)
  THEN {[samples |-> Some(<<Proposal>>),
         g |-> [g EXCEPT !.left = @ - 1, !.is_active = TRUE,
                         !.last_candidate = Some(Proposal)]]}
  ELSE {[samples |-> Some([i \in 1..k |-> Proposal]), g |-> [g EXCEPT !.left = @ - k]] :
          k \in 1..(IF n < g.left THEN n ELSE g.left)}

\* SequentialGenerator.validate_point: TRUE when the input is accepted.
validate_point(g, input_data) ==
  IsNone(g.last_candidate)
    \/ (Len(input_data) = 1 /\ input_data[1].x = Get(g.last_candidate))

\* ------------------------------------------------------------- vocs, evaluator
\* VOCS.validate_input_data: every row's variable lies within its bounds.
validate_input_data(input_data) ==
  \A i \in 1..Len(input_data) :
    /\ VOCS.variables.x[1] <= input_data[i].x
    /\ input_data[i].x <= VOCS.variables.x[2]

\* <<10, 20, ..., 10 n>>
Iota(n) == [i \in 1..n |-> 10 * i]

\* What the evaluated function may return for one candidate.
EvalOutputs ==
  {[y1 |-> Scalar(10), y2 |-> Scalar(10)],
   [y1 |-> NaN, y2 |-> Scalar(10)],
   [y1 |-> ListCell(Iota(MaxListLen)), y2 |-> ListCell(Iota(MaxListLen))],
   [y1 |-> ListCell(Iota(MaxListLen)), y2 |-> Scalar(10)],
   [y1 |-> ListCell(Iota(MaxListLen)), y2 |-> ListCell(Iota(MaxListLen - 1))]}

\* The plain answer of the evaluated function: both outputs scalar.
Scalar10 == [y1 |-> Scalar(10), y2 |-> Scalar(10)]

\* Evaluator.evaluate_data: one result row per input row, inputs kept.
Evaluator_evaluate_data(input_data, outs) ==
  [i \in 1..Len(input_data) |->
     [idx |-> i - 1, x |-> input_data[i].x, c |-> input_data[i].c,
      y1 |-> outs[i].y1, y2 |-> outs[i].y2]]

\* A cell holds a number, or a list of numbers.
Numeric(cell) == cell.list \/ cell.v # <<>>

\* validate_outputs: every declared objective and constraint is numeric.
validate_outputs(output_data) ==
  \A i \in 1..Len(output_data) :
    \A col \in VOCS.objectives \cup VOCS.constraints : Numeric(output_data[i][col])

\* Lengths of the list-valued output cells of a row.
ListLens(r) == {Len(r[col].v) : col \in {k \in Outputs : r[k].list}}

\* The i-th of the rows a result row explodes into.
Element(r, i) ==
  [r EXCEPT !.y1 = IF r.y1.list THEN Scalar(r.y1.v[i]) ELSE r.y1,
            !.y2 = IF r.y2.list THEN Scalar(r.y2.v[i]) ELSE r.y2]

ExplodeRow(r) ==
  IF ListLens(r) = {} THEN <<r>>
  ELSE LET L == CHOOSE n \in ListLens(r) : TRUE
       IN [i \in 1..L |-> Element(r, i)]

RECURSIVE ExplodeFrom(_, _)
ExplodeFrom(t, i) ==
  IF i > Len(t) THEN <<>> ELSE ExplodeRow(t[i]) \o ExplodeFrom(t, i + 1)

\* explode_all_columns: fails when list-valued cells of a row differ in length.
explode_all_columns(output_data) ==
  IF \E i \in 1..Len(output_data) : Cardinality(ListLens(output_data[i])) > 1
  THEN [err |-> TRUE, rows |-> <<>>]
  ELSE [err |-> FALSE, rows |-> ExplodeFrom(output_data, 1)]

\* ------------------------------------------------------------- driver
VARIABLES
  generator,        \* the generator: name, mirror (data), is_active, last_candidate,
                    \* left, and the method that last updated the mirror (mirrored_by)
  evaluator,        \* the evaluator: max_workers
  strict,           \* output validation on or off
  dump_file,        \* optional dump target
  max_evaluations,  \* optional evaluation cap
  data,             \* the Dataset: optional table
  dumped,           \* what the dump target holds: optional document
  pc,               \* "idle", or "run" while run() loops
  last,             \* the last driver call: what was asked and how it ended
  added,            \* rows handed to add_data so far, while nothing else was called
  returned,         \* the table remove_data(inplace=False) gave its caller, if any
  threads           \* the add_data calls of concurrent callers, each at its line

vars == <<generator, evaluator, strict, dump_file, max_evaluations, data, dumped,
          pc, last, added, returned, threads>>

\* The driver object.
self == [generator |-> generator, evaluator |-> evaluator, strict |-> strict,
         dump_file |-> dump_file, max_evaluations |-> max_evaluations, data |-> data]

\* Xopt.n_data
n_data(X) == IF IsNone(X.data) THEN 0 ELSE Len(Get(X.data))

\* add_data numbering the new rows one too far.
add_data_off_by_one(X, new_data) ==
  LET new == Reindex(new_data, n_data(X) + 1)
  IN [X EXCEPT !.data = IF IsNone(X.data) THEN Some(new)
                        ELSE Some(Concat(Get(X.data), new)),
               !.generator = Generator_add_data(X.generator, new)]

\* Xopt.add_data: the new rows are relabelled from the current row count on,
\* appended, and handed to the generator.
add_data(X, new_data) ==
  LET new == Reindex(new_data, n_data(X))
  IN [X EXCEPT !.data = IF IsNone(X.data) THEN Some(new)
                        ELSE Some(Concat(Get(X.data), new)),
               !.generator = Generator_add_data(X.generator, new)]

\* reset_data forgetting the generator's copy.
reset_data_keeps_mirror(X) == [X EXCEPT !.data = Some(<<>>)]

\* Xopt.reset_data
reset_data(X) ==
  [X EXCEPT !.data = Some(<<>>), !.generator = [X.generator EXCEPT !.data = Some(<<>>)]]

\* remove_data keeping the labels of the rows that stay.
Removed_keeps_labels(X, indices) == Drop(Get(X.data), indices)

\* The table remove_data builds: rows dropped, the rest relabelled from 0.
Removed(X, indices) == Reindex(Drop(Get(X.data), indices), 0)

\* Xopt.remove_data(indices, inplace=True)
remove_data(X, indices) ==
  LET new_data == Removed(X, indices)
  IN [X EXCEPT !.data = Some(new_data),
               !.generator = [X.generator EXCEPT !.data = Some(new_data)]]

\* remove_data(inplace=False) changing the driver as inplace=True does.
remove_data_copy_in_place(X, indices) ==
  [X |-> remove_data(X, indices), returns |-> Some(Removed(X, indices))]

\* Xopt.remove_data(indices, inplace=False): the driver as it was, and the
\* table handed back.
remove_data_copy(X, indices) == [X |-> X, returns |-> Some(Removed(X, indices))]

\* ------------------------------------------------------------- serializer
\* DataFrame.to_json keeps ten decimal places (double_precision=10).
RoundP(v) == ((v + 5) \div 10) * 10
RoundCell(cell) == [cell EXCEPT !.v = [k \in 1..Len(cell.v) |-> RoundP(cell.v[k])]]
RoundRow(r) ==
  [r EXCEPT !.x = RoundP(r.x), !.c = RoundP(r.c),
            !.y1 = RoundCell(r.y1), !.y2 = RoundCell(r.y2)]

\* DataFrame.to_json(): an object keyed by label, so the labels must be unique
\* and the storage order is not kept.
Unique(t) == \A i, j \in 1..Len(t) : t[i].idx = t[j].idx => i = j
to_json(t) == {RoundRow(t[i]) : i \in 1..Len(t)}

\* Xopt.json: the document, or an error when the data cannot be written.
json(X) ==
  IF ~IsNone(X.data) /\ ~Unique(Get(X.data)) THEN [err |-> TRUE, doc |-> None]
  ELSE [err |-> FALSE,
        doc |-> Some([vocs |-> VOCS,
                      generator |-> [name |-> X.generator.name],
                      evaluator |-> X.evaluator,
                      strict |-> X.strict,
                      dump_file |-> X.dump_file,
                      max_evaluations |-> X.max_evaluations,
                      data |-> IF IsNone(X.data) THEN None
                               ELSE Some(to_json(Get(X.data)))])]

\* A file opened for writing and never written to.
EmptyFile == [bytes |-> 0]

\* Xopt.dump: the file's new content.  The file is opened for writing before
\* the document is built, so it is left empty when json() raises.
dump(X, file) == IF json(X).err THEN Some(EmptyFile) ELSE json(X).doc

\* DataFrame(v).sort_index(): the rows by ascending label.
RECURSIVE SortIndex(_)
SortIndex(S) ==
  IF S = {} THEN <<>>
  ELSE LET r == CHOOSE m \in S : \A o \in S : m.idx <= o.idx
       IN <<r>> \o SortIndex(S \ {r})

\* The strict field: True unless the caller says otherwise.
strict_field(arg) == IF IsNone(arg) THEN TRUE ELSE Get(arg)

\* A generator as its class builds it.
NewGenerator(name, left) ==
  [name |-> name, data |-> None, is_active |-> FALSE, last_candidate |-> None,
   left |-> left, mirrored_by |-> "none"]

\* Xopt.validate_data: a supplied table is handed to the generator as it is.
validate_data(g, v) ==
  IF IsNone(v) THEN g
  ELSE IF ~StateOwner(g.name) THEN Generator_add_data(g, Get(v))
  ELSE Generator_set_data(g, v)

\* Xopt(...): the driver built from its parts.
Xopt(g, ev, st, df, me, v) ==
  [generator |-> validate_data(g, v), evaluator |-> ev, strict |-> st,
   dump_file |-> df, max_evaluations |-> me, data |-> v]

\* Xopt(**document): validate_model picks the generator class by its name,
\* validate_data rebuilds the table from the keyed object.
FromDocument(doc) ==
  Xopt(NewGenerator(get_generator(doc.generator.name), MaxGenerate),
       doc.evaluator, doc.strict, doc.dump_file, doc.max_evaluations,
       IF IsNone(doc.data) THEN None ELSE Some(SortIndex(Get(doc.data))))

\* ------------------------------------------------------------- evaluation
\* How a call ends.
ValidationErrors == {"ValidationError", "OutputValidationError", "ShapeError"}

\* The constant columns added to the input.
WithConstants(input_data) ==
  [i \in 1..Len(input_data) |-> [x |-> input_data[i].x, c |-> VOCS.constants.c]]

\* evaluate_data without its order check.
order_ok_unchecked(X, inp) == TRUE

\* The order check of evaluate_data: an active sequential generator must accept
\* the input.
order_ok(X, inp) ==
  ~(/\ SequentialGenerator(X.generator.name)
    /\ X.generator.is_active
    /\ ~validate_point(X.generator, inp))

\* evaluate_data validating the outputs whatever strict says.
outputs_rejected_always(X, output_data) == ~validate_outputs(output_data)

\* The output check of evaluate_data: made in strict mode only.
outputs_rejected(X, output_data) == X.strict /\ ~validate_outputs(output_data)

\* evaluate_data storing the results as the evaluator returned them.
unexploded_output(output_data) == [err |-> FALSE, rows |-> output_data]

\* The results as evaluate_data stores them: exploded.
exploded_output(output_data) == explode_all_columns(output_data)

\* evaluate_data storing the results before it validates them.
evaluate_data_stores_first(X, file, input_data, outs) ==
  LET inp == WithConstants(input_data)
      output_data == Evaluator_evaluate_data(inp, outs)
      exploded == exploded_output(output_data)
      X1 == add_data(X, output_data)
      X2 == add_data(X, exploded.rows)
      fail(Y, e, called) == [X |-> Y, file |-> file, err |-> e, evaluated |-> called,
                             output |-> <<>>]
  IN IF ~validate_input_data(input_data) THEN fail(X, "ValidationError", FALSE)
     ELSE IF ~order_ok(X, inp) THEN fail(X, "ValidationError", FALSE)
     ELSE IF outputs_rejected(X, output_data)
     THEN fail(X1, "OutputValidationError", TRUE)
     ELSE IF exploded.err THEN fail(X1, "ShapeError", TRUE)
     ELSE [X |-> X2, file |-> IF IsNone(X2.dump_file) THEN file ELSE dump(X2, file),
           err |-> IF ~IsNone(X2.dump_file) /\ json(X2).err THEN "SerializationError"
                   ELSE "ok",
           evaluated |-> TRUE, output |-> exploded.rows]

\* evaluate_data writing the dump target before it stores the results.
evaluate_data_dumps_first(X, file, input_data, outs) ==
  LET inp == WithConstants(input_data)
      output_data == Evaluator_evaluate_data(inp, outs)
      exploded == exploded_output(output_data)
      X2 == add_data(X, exploded.rows)
      fail(e, called) == [X |-> X, file |-> file, err |-> e, evaluated |-> called,
                          output |-> <<>>]
  IN IF ~validate_input_data(input_data) THEN fail("ValidationError", FALSE)
     ELSE IF ~order_ok(X, inp) THEN fail("ValidationError", FALSE)
     ELSE IF outputs_rejected(X, output_data)
     THEN fail("OutputValidationError", TRUE)
     ELSE IF exploded.err THEN fail("ShapeError", TRUE)
     ELSE IF IsNone(X2.dump_file)
     THEN [X |-> X2, file |-> file, err |-> "ok", evaluated |-> TRUE,
           output |-> exploded.rows]
     ELSE [X |-> X2, file |-> dump(X, file),
           err |-> IF json(X).err THEN "SerializationError" ELSE "ok",
           evaluated |-> TRUE, output |-> exploded.rows]

\* Xopt.evaluate_data on input_data, the evaluated function answering outs.
\* Gives the driver and the dump target after the call, how the call ended,
\* whether the evaluator was called, and the table returned.
evaluate_data(X, file, input_data, outs) ==
  LET inp == WithConstants(input_data)
      output_data == Evaluator_evaluate_data(inp, outs)
      exploded == exploded_output(output_data)
      X2 == add_data(X, exploded.rows)
      fail(e, called) == [X |-> X, file |-> file, err |-> e, evaluated |-> called,
                          output |-> <<>>]
  IN IF ~validate_input_data(input_data) THEN fail("ValidationError", FALSE)
     ELSE IF ~order_ok(X, inp) THEN fail("ValidationError", FALSE)
     ELSE IF outputs_rejected(X, output_data)
     THEN fail("OutputValidationError", TRUE)
     ELSE IF exploded.err THEN fail("ShapeError", TRUE)
     ELSE IF IsNone(X2.dump_file)
     THEN [X |-> X2, file |-> file, err |-> "ok", evaluated |-> TRUE,
           output |-> exploded.rows]
     ELSE [X |-> X2, file |-> dump(X2, file),
           err |-> IF json(X2).err THEN "SerializationError" ELSE "ok",
           evaluated |-> TRUE, output |-> exploded.rows]

\* evaluate writing the constants into the caller's record.
evaluate_in_place(X, file, input_dict, out) ==
  LET inputs == [x |-> input_dict.x, c |-> VOCS.constants.c]
  IN IF ~validate_input_data(<<inputs>>)
     THEN [X |-> X, file |-> file, err |-> "ValidationError", evaluated |-> FALSE,
           input_dict |-> inputs, passed |-> None, returns |-> None]
     ELSE [X |-> X, file |-> file, err |-> "ok", evaluated |-> TRUE,
           input_dict |-> inputs, passed |-> Some(inputs), returns |-> Some(out)]

\* Xopt.evaluate on the caller's record input_dict, the evaluated function
\* answering out: the constants go into a copy, the copy is validated, and
\* the evaluator is called with input_dict.  Gives the driver and the
\* dump target after the call, how the call ended, the caller's record after
\* the call, the record the evaluator was given, and the result handed back.
evaluate(X, file, input_dict, out) ==
  LET inputs == [x |-> input_dict.x, c |-> VOCS.constants.c]
  IN IF ~validate_input_data(<<inputs>>)
     THEN [X |-> X, file |-> file, err |-> "ValidationError", evaluated |-> FALSE,
           input_dict |-> input_dict, passed |-> None, returns |-> None]
     ELSE [X |-> X, file |-> file, err |-> "ok", evaluated |-> TRUE,
           input_dict |-> input_dict, passed |-> Some(input_dict), returns |-> Some(out)]

\* step() asking for one candidate whatever the evaluator can take.
n_generate_one(X) == X.evaluator.max_workers - (X.evaluator.max_workers - 1)

\* The number of candidates step() asks the generator for.
n_generate(X) == X.evaluator.max_workers

\* Xopt.step with the generator's answer gen: nothing happens when it has no
\* candidates, otherwise they all go to evaluate_data in one call.
step(X, file, gen, outs) ==
  LET X1 == [X EXCEPT !.generator = gen.g]
  IN IF IsNone(gen.samples)
     THEN [X |-> X1, file |-> file, err |-> "ok", evaluated |-> FALSE, output |-> <<>>]
     ELSE evaluate_data(X1, file, [i \in 1..Len(Get(gen.samples)) |->
                                     [x |-> Get(gen.samples)[i]]], outs)

\* ------------------------------------------------------------- callers
\* A row as a caller writes it, under the label it carries on input.
UserRow(i, x) ==
  [idx |-> i, x |-> x, c |-> VOCS.constants.c, y1 |-> Scalar(10), y2 |-> Scalar(10)]

\* Tables a caller may supply at construction: any integer labels, any order.
SuppliedTables ==
  UNION {[1..k -> {UserRow(i, 10) : i \in 0..(MaxInitRows - 1)}] : k \in 1..MaxInitRows}

\* The labels of a set in ascending order.
RECURSIVE SortedLabels(_)
SortedLabels(S) ==
  IF S = {} THEN <<>>
  ELSE LET m == CHOOSE a \in S : \A b \in S : a <= b
       IN <<m>> \o SortedLabels(S \ {m})

\* The row without its label.
Strip(r) == [x |-> r.x, c |-> r.c, y1 |-> r.y1, y2 |-> r.y2]

Call(op, err, called, input, n0) ==
  [op |-> op, err |-> err, evaluated |-> called, input |-> input, n0 |-> n0]

\* A thread that is in no call of the driver.
IdleThread == [line |-> "idle", new_data |-> <<>>, fresh |-> FALSE, concat |-> <<>>]

\* The state after Xopt(vocs=..., generator=..., evaluator=..., data=v).
Init ==
  \E name \in GeneratorNames, w \in 1..MaxWorkers,
     sa \in {None, Some(TRUE), Some(FALSE)},
     df \in {None, Some("dump.yaml")},
     me \in {None} \cup {Some(n) : n \in 1..MaxEvaluations},
     v \in {None} \cup {Some(t) : t \in SuppliedTables} :
    \* a dump target is modelled for one kind of driver: accumulative generator,
    \* strict, the most workers, a cap
    /\ ~IsNone(df) =>
         (~StateOwner(name) /\ strict_field(sa) /\ w = MaxWorkers /\ ~IsNone(me))
    /\ LET X == Xopt(NewGenerator(name, MaxGenerate), [max_workers |-> w],
                     strict_field(sa), df, me, v)
       IN /\ generator = X.generator
          /\ evaluator = X.evaluator
          /\ strict = X.strict
          /\ dump_file = X.dump_file
          /\ max_evaluations = X.max_evaluations
          /\ data = X.data
          /\ dumped = None
          /\ pc = "idle"
          /\ last = [op |-> "init", err |-> "ok", evaluated |-> FALSE, input |-> <<>>,
                      n0 |-> 0, strict |-> sa]
          /\ added = IF IsNone(v) THEN Some(<<>>) ELSE None
          /\ returned = None
          /\ threads = [t \in 1..MaxThreads |-> IdleThread]

\* The driver's fields become those of X; the settings never change.
Becomes(X) ==
  /\ generator' = X.generator
  /\ data' = X.data
  /\ UNCHANGED <<evaluator, strict, dump_file, max_evaluations>>

\* What a caller holds is no part of the driver, and a call made by one
\* caller alone runs from its first line to its last.
Aside == UNCHANGED <<returned, threads>>

\* X.add_data(rows)
AddData(rows) ==
  /\ n_data(self) + Len(rows) <= MaxRows
  /\ Becomes(add_data(self, rows))
  /\ last' = Call("add_data", "ok", FALSE, <<>>, 0)
  /\ added' = IF IsNone(added) THEN None
              ELSE Some(Get(added) \o [i \in 1..Len(rows) |-> Strip(rows[i])])
  /\ UNCHANGED <<dumped, pc>>
  /\ Aside

\* X.evaluate_data(input)
EvaluateData(input, outs) ==
  \E r \in {evaluate_data(self, dumped, [i \in 1..Len(input) |-> [x |-> input[i]]], outs)} :
     /\ n_data(r.X) <= MaxRows
     /\ Becomes(r.X)
     /\ dumped' = r.file
     /\ last' = Call("evaluate_data", r.err, r.evaluated, input, 0)
     /\ added' = None
     /\ UNCHANGED pc
     /\ Aside

\* X.evaluate(record)
Evaluate(record, out) ==
  \E r \in {evaluate(self, dumped, record, out)} :
     /\ Becomes(r.X)
     /\ dumped' = r.file
     /\ last' = [op |-> "evaluate", err |-> r.err, evaluated |-> r.evaluated,
                 input |-> <<record.x>>, n0 |-> 0, input_dict |-> r.input_dict,
                 passed |-> r.passed, returns |-> r.returns]
     /\ UNCHANGED <<pc, added>>
     /\ Aside

\* X.step()
Step(gen, outs) ==
  \E r \in {step(self, dumped, gen, outs)} :
     /\ n_data(r.X) <= MaxRows
     /\ Becomes(r.X)
     /\ dumped' = r.file
     /\ last' = [op |-> "step", err |-> r.err, evaluated |-> r.evaluated,
                 input |-> IF IsNone(gen.samples) THEN <<>> ELSE Get(gen.samples),
                 n0 |-> 0, n_generate |-> n_generate(self)]
     /\ added' = None
     /\ UNCHANGED pc
     /\ Aside

\* X.reset_data()
ResetData ==
  /\ Becomes(reset_data(self))
  /\ last' = Call("reset_data", "ok", FALSE, <<>>, 0)
  /\ added' = None
  /\ UNCHANGED <<dumped, pc>>
  /\ Aside

\* X.remove_data(indices, inplace=True); drop() raises on a label that is absent.
RemoveData(indices) ==
  /\ ~IsNone(data)
  /\ IF indices \subseteq Range(Labels(Get(data)))
     THEN /\ Becomes(remove_data(self, indices))
          /\ last' = Call("remove_data", "ok", FALSE, SortedLabels(indices), 0)
     ELSE /\ UNCHANGED <<generator, evaluator, strict, dump_file, max_evaluations, data>>
          /\ last' = Call("remove_data", "KeyError", FALSE, SortedLabels(indices), 0)
  /\ added' = None
  /\ UNCHANGED <<dumped, pc>>
  /\ Aside

\* X.remove_data(indices, inplace=False); drop() raises on a label that is absent.
RemoveDataCopy(indices) ==
  /\ ~IsNone(data)
  /\ IF indices \subseteq Range(Labels(Get(data)))
     THEN \E r \in {remove_data_copy(self, indices)} :
            /\ Becomes(r.X)
            /\ returned' = r.returns
            /\ last' = Call("remove_data_copy", "ok", FALSE, SortedLabels(indices), 0)
     ELSE /\ UNCHANGED <<generator, evaluator, strict, dump_file, max_evaluations, data,
                         returned>>
          /\ last' = Call("remove_data_copy", "KeyError", FALSE, SortedLabels(indices), 0)
  /\ added' = None
  /\ UNCHANGED <<dumped, pc, threads>>

\* run() entered without looking for the cap.
cap_missing_ignored(X) == FALSE

\* run()'s first test: no cap is set.
cap_missing(X) == IsNone(X.max_evaluations)

\* X.run() is entered: it raises ValueError at once when no cap is set.
RunStart ==
  /\ IF cap_missing(self)
     THEN /\ pc' = "idle"
          /\ last' = Call("run", "ValueError", FALSE, <<>>, n_data(self))
     ELSE /\ pc' = "run"
          /\ last' = Call("run", "running", FALSE, <<>>, n_data(self))
  /\ added' = None
  /\ UNCHANGED <<generator, evaluator, strict, dump_file, max_evaluations, data, dumped>>
  /\ Aside

\* The stopping test passing one row early.
CapReached_early(X) ==
  ~IsNone(X.max_evaluations) /\ n_data(X) + 1 >= Get(X.max_evaluations)

\* run()'s stopping test.
CapReached(X) ==
  ~IsNone(X.max_evaluations) /\ n_data(X) >= Get(X.max_evaluations)

\* run() finds the cap reached and returns.
RunReturn ==
  /\ CapReached(self)
  /\ pc' = "idle"
  /\ last' = [last EXCEPT !.err = "ok"]
  /\ UNCHANGED <<generator, evaluator, strict, dump_file, max_evaluations, data,
                 dumped, added>>
  /\ Aside

\* run() finds the cap not reached and calls step(); an error ends the run.
RunStep(gen, outs) ==
  /\ ~CapReached(self)
  /\ \E r \in {step(self, dumped, gen, outs)} :
       /\ n_data(r.X) <= MaxRows
       /\ Becomes(r.X)
       /\ dumped' = r.file
       /\ pc' = IF r.err = "ok" THEN "run" ELSE "idle"
       /\ last' = IF r.err = "ok" THEN [last EXCEPT !.evaluated = @ \/ r.evaluated]
                  ELSE [last EXCEPT !.err = r.err]
  /\ UNCHANGED added
  /\ Aside

Inputs == SeqUpTo(Xs, 1) \cup {<<XBad>>} \cup {[i \in 1..k |-> 23] : k \in 2..MaxChunk}
Answers(k) == [1..k -> EvalOutputs]
Generated == generate(generator, n_generate(self))
Sizes(gen) == IF IsNone(gen.samples) THEN 0 ELSE Len(Get(gen.samples))

\* One turn of run()'s loop.
RunIter ==
  /\ pc = "run"
  /\ \/ RunReturn
     \/ \E gen \in Generated : \E outs \in Answers(Sizes(gen)) : RunStep(gen, outs)

\* A caller's operation between two calls, or one turn of run()'s loop.
Next ==
  \/ pc = "idle" /\ \E rows \in SeqUpTo({UserRow(0, x) : x \in Xs}, MaxChunk) : AddData(rows)
  \/ pc = "idle" /\ \E input \in Inputs : \E outs \in Answers(Len(input)) : EvaluateData(input, outs)
  \/ pc = "idle" /\ \E x \in Xs \cup {XBad} : Evaluate([x |-> x], Scalar10)
  \/ pc = "idle" /\ \E gen \in Generated : \E outs \in Answers(Sizes(gen)) : Step(gen, outs)
  \/ pc = "idle" /\ ResetData
  \/ pc = "idle" /\ \E indices \in SUBSET (0..(MaxRows - 1)) : RemoveData(indices)
  \/ pc = "idle" /\ RunStart
  \/ pc = "run" /\ RunReturn
  \/ pc = "run" /\ \E gen \in Generated : \E outs \in Answers(Sizes(gen)) : RunStep(gen, outs)

Spec == Init /\ [][Next]_vars

\* The drivers built without data or from a table labelled 0..k-1.
DenseInit ==
  /\ Init
  /\ \A i \in 1..n_data(self) : Get(data)[i].idx = i - 1

DenseSpec == DenseInit /\ [][Next]_vars

\* The strict one-worker drivers without dump target and cap, whose callers
\* also ask for copies with rows removed and keep the last one they got.
CopyInit ==
  /\ Init
  /\ IsNone(dump_file) /\ IsNone(max_evaluations)
  /\ strict /\ evaluator.max_workers = 1

CopyNext ==
  \/ \E rows \in SeqUpTo({UserRow(0, x) : x \in Xs}, 1) : AddData(rows)
  \/ \E input \in SeqUpTo(Xs, 1) : \E outs \in Answers(Len(input)) : EvaluateData(input, outs)
  \/ \E gen \in Generated : \E outs \in Answers(Sizes(gen)) : Step(gen, outs)
  \/ ResetData
  \/ \E indices \in SUBSET (0..(MaxRows - 1)) : RemoveData(indices)
  \/ \E indices \in SUBSET (0..(MaxRows - 1)) : RemoveDataCopy(indices)

CopySpec == CopyInit /\ [][CopyNext]_vars

\* ------------------------------------------------------------- threads
\* add_data called by several threads at once: nothing in the driver keeps
\* one call's lines from running between another's.

\* add_data up to its relabelling: the thread looks whether there is a Dataset
\* and how long it is, and labels its copy of the rows from that length on.
AddIndex(t, rows) ==
  /\ threads[t].line = "idle"
  /\ Len(Get(added)) + Len(rows) <= MaxRows
  /\ threads' = [threads EXCEPT ![t] =
                   [line |-> "concat", new_data |-> Reindex(rows, n_data(self)),
                    fresh |-> IsNone(data), concat |-> <<>>]]
  /\ added' = Some(Get(added) \o [i \in 1..Len(rows) |-> Strip(rows[i])])
  /\ UNCHANGED <<generator, evaluator, strict, dump_file, max_evaluations, data,
                 dumped, pc, last, returned>>

\* The right-hand side of the assignment: the Dataset as it is now with the
\* thread's rows after it, or the thread's rows alone when it found no Dataset.
AddConcat(t) ==
  /\ threads[t].line = "concat"
  /\ threads' = [threads EXCEPT ![t].line = "assign",
                                ![t].concat = IF threads[t].fresh THEN threads[t].new_data
                                              ELSE Concat(Get(data), threads[t].new_data)]
  /\ UNCHANGED <<generator, evaluator, strict, dump_file, max_evaluations, data,
                 dumped, pc, last, added, returned>>

\* self.data = ...
AddAssign(t) ==
  /\ threads[t].line = "assign"
  /\ data' = Some(threads[t].concat)
  /\ threads' = [threads EXCEPT ![t].line = "mirror"]
  /\ UNCHANGED <<generator, evaluator, strict, dump_file, max_evaluations,
                 dumped, pc, last, added, returned>>

\* self.generator.add_data(new_data) returns.
AddMirror(t) ==
  /\ threads[t].line = "mirror"
  /\ generator' = Generator_add_data(generator, threads[t].new_data)
  /\ threads' = [threads EXCEPT ![t] = IdleThread]
  /\ UNCHANGED <<evaluator, strict, dump_file, max_evaluations, data,
                 dumped, pc, last, added, returned>>

\* self.generator.add_data(new_data) raises: add_data ends there.
AddMirrorRaises(t) ==
  /\ threads[t].line = "mirror"
  /\ threads' = [threads EXCEPT ![t] = IdleThread]
  /\ last' = Call("add_data", "GeneratorError", FALSE, <<>>, 0)
  /\ UNCHANGED <<generator, evaluator, strict, dump_file, max_evaluations, data,
                 dumped, pc, added, returned>>

\* A strict one-worker driver with an accumulative generator, built without
\* data, dump target or cap.
ThreadsInit ==
  /\ Init
  /\ IsNone(data) /\ IsNone(dump_file) /\ IsNone(max_evaluations)
  /\ strict /\ evaluator.max_workers = 1 /\ ~StateOwner(generator.name)

ThreadsNext ==
  \/ \E t \in 1..MaxThreads : \E rows \in SeqUpTo({UserRow(0, x) : x \in Xs}, 1) :
       AddIndex(t, rows)
  \/ \E t \in 1..MaxThreads : AddConcat(t)
  \/ \E t \in 1..MaxThreads : AddAssign(t)
  \/ \E t \in 1..MaxThreads : AddMirror(t)
  \/ \E t \in 1..MaxThreads : AddMirrorRaises(t)

ThreadsSpec == ThreadsInit /\ [][ThreadsNext]_vars

\* run() keeps looping: no turn of its loop is postponed for ever.
FairSpec == Spec /\ WF_vars(RunIter)

\* ------------------------------------------------------------- claims
\* The rows of the Dataset (none when there is no Dataset).
Rows == IF IsNone(data) THEN <<>> ELSE Get(data)

\* C1: the Dataset's labels are 0, 1, ..., n-1 in storage order, in every
\* state the driver reaches from construction (with or without a supplied
\* table) by add_data, evaluate_data, step, remove_data and reset_data.
\* Fails: a supplied table keeps whatever integer labels it came with.
C1_DenseIndex == \A i \in 1..Len(Rows) : Rows[i].idx = i - 1

\* C2: the generator's copy holds the same rows under the same labels as the
\* Dataset, after construction and after every operation.
C2_MirrorMatches == generator.data = data

\* C2 witness: rows were removed in place and a row is left in both copies.
C2_Witness ==
  /\ last.op = "remove_data" /\ last.err = "ok" /\ last.input # <<>>
  /\ Len(Rows) >= 1 /\ generator.data = data

\* C9: from a driver built without data, after add_data calls only, the
\* labels are 0..n-1 with n the number of rows passed in, and the rows are
\* stored in the order they were passed.
C9_AddOnlyDense ==
  ~IsNone(added) =>
    /\ Len(Rows) = Len(Get(added))
    /\ \A i \in 1..Len(Rows) : Rows[i].idx = i - 1 /\ Strip(Rows[i]) = Get(added)[i]

\* C9 witness: add_data filled the Dataset with different rows.
C9_Witness ==
  /\ ~IsNone(added) /\ Len(Get(added)) = MaxRows
  /\ Get(added)[1] # Get(added)[MaxRows]

\* C10: remove_data(indices, inplace=True) with labels that exist leaves
\* the rows whose label is not in indices, in their order, relabelled
\* 0..m-1, in the Dataset and in the generator's copy.
C10_RemoveKeepsOthers ==
  [][(last'.op = "remove_data" /\ last'.err = "ok") =>
       LET S == Range(last'.input)
           old == Get(data)
           new == Get(data')
           keep == {i \in 1..Len(old) : old[i].idx \notin S}
       IN /\ Len(new) = Cardinality(keep)
          /\ \A i \in keep :
               LET k == Cardinality({j \in keep : j <= i})
               IN new[k] = [old[i] EXCEPT !.idx = k - 1]
          /\ generator'.data = data']_vars

\* C10 witness: the first of two rows was removed; the second is now row 0.
C10_Witness ==
  /\ last.op = "remove_data" /\ last.err = "ok" /\ last.input = <<0>>
  /\ Len(Rows) = 1 /\ Rows[1].idx = 0 /\ Rows[1].x = 23

\* C3: an evaluate_data call that fails validation (input schema, order,
\* strict output validation, explosion lengths), called directly or through
\* step or run, leaves the Dataset and the generator's copy as they were.
C3_FailedCallStoresNothing ==
  [][last'.err \in ValidationErrors =>
       (data' = data /\ generator'.data = generator.data)]_vars

\* C3 witness: a batch of two failed at explosion with rows already stored.
C3_Witness ==
  /\ last.op = "evaluate_data" /\ last.err = "ShapeError" /\ Len(last.input) = 2
  /\ Len(Rows) >= 1

\* run() has returned normally and nothing was called since; it was entered
\* below the cap.
RunReturned ==
  /\ pc = "idle" /\ last.op = "run" /\ last.err = "ok"
  /\ last.n0 < Get(max_evaluations)

C5_RunReturns == (pc = "run") ~> (pc = "idle")

\* An evaluate_data call is made while a sequential generator is active and
\* holds an outstanding candidate.
OrderedCall ==
  /\ last'.op = "evaluate_data"
  /\ SequentialGenerator(generator.name) /\ generator.is_active
  /\ ~IsNone(generator.last_candidate)

\* An evaluate_data call with an input the problem definition accepts is made
\* while no sequential generator is active.
FreeCall ==
  /\ last'.op = "evaluate_data"
  /\ ~(SequentialGenerator(generator.name) /\ generator.is_active)
  /\ \A i \in 1..Len(last'.input) : last'.input[i] \in Xs

\* The rows of the Dataset in the next state.
RowsAfter == IF IsNone(data') THEN <<>> ELSE Get(data')

\* C6 as claimed: with an outstanding candidate c, evaluate_data of another
\* input fails with ValidationError before the evaluator is called and stores
\* nothing, evaluate_data(c) calls the evaluator and appends exactly one row;
\* without an active sequential generator no match is required.
\* Fails: c's result may fail output validation or explode into several rows.
C6_MatchAppendsOne ==
  [][/\ OrderedCall =>
          IF last'.input = <<Get(generator.last_candidate)>>
          THEN last'.evaluated /\ Len(RowsAfter) = Len(Rows) + 1
          ELSE last'.err = "ValidationError" /\ ~last'.evaluated /\ data' = data
     /\ FreeCall => last'.evaluated]_vars

\* C6 amended: with an outstanding candidate c, evaluate_data of another
\* input fails with ValidationError before the evaluator is called and stores
\* nothing; evaluate_data(c) calls the evaluator and then either fails output
\* validation or explosion and stores nothing, or appends the rows of c's
\* result, at least one and each carrying c; without an active sequential
\* generator no match is required.
C6_MatchAppendsResult ==
  [][/\ OrderedCall =>
          IF last'.input = <<Get(generator.last_candidate)>>
          THEN /\ last'.evaluated
               /\ IF last'.err \in ValidationErrors THEN data' = data
                  ELSE /\ Len(RowsAfter) >= Len(Rows) + 1
                       /\ \A i \in 1..Len(RowsAfter) :
                            IF i <= Len(Rows) THEN RowsAfter[i] = Rows[i]
                            ELSE RowsAfter[i].x = Get(generator.last_candidate)
          ELSE last'.err = "ValidationError" /\ ~last'.evaluated /\ data' = data
     /\ FreeCall => last'.evaluated]_vars

\* C6 witness: the candidate is outstanding and another valid input was refused.
C6_Witness ==
  /\ SequentialGenerator(generator.name) /\ generator.is_active
  /\ generator.last_candidate = Some(Proposal)
  /\ last.op = "evaluate_data" /\ last.input = <<23>>
  /\ last.err = "ValidationError" /\ ~last.evaluated

\* The driver a round trip through its document gives; no driver when the
\* document cannot be written.
Reloaded == IF json(self).err THEN None ELSE Some(FromDocument(Get(json(self).doc)))

\* C8: the driver rebuilt from the document it produces has the same
\* generator variant, the same settings and the same Dataset: same rows,
\* same labels, same order.
\* Fails: the document keeps ten decimal places and no storage order, and
\* cannot be written when a label repeats.
C8_RoundTrip ==
  /\ ~IsNone(Reloaded)
  /\ Get(Reloaded).generator.name = generator.name
  /\ Get(Reloaded).evaluator = evaluator
  /\ Get(Reloaded).strict = strict
  /\ Get(Reloaded).dump_file = dump_file
  /\ Get(Reloaded).max_evaluations = max_evaluations
  /\ Get(Reloaded).data = data

\* Rows one candidate's result is stored as.
RowLen(o) ==
  IF o.y1.list THEN Len(o.y1.v) ELSE IF o.y2.list THEN Len(o.y2.v) ELSE 1

\* The result's list-valued cells differ in length.
Ragged(o) == o.y1.list /\ o.y2.list /\ Len(o.y1.v) # Len(o.y2.v)

\* Rows stored for the candidates before the i-th.
RECURSIVE Before(_, _)
Before(outs, i) == IF i = 1 THEN 0 ELSE Before(outs, i - 1) + RowLen(outs[i - 1])

\* A cell's j-th element, the cell itself when it is no list.
Pick(cell, j) == IF cell.list THEN Scalar(cell.v[j]) ELSE cell

\* The call evaluate_data(input) answered by outs keeps the Dataset and adds,
\* for the i-th candidate and each j up to its lists' length, a row with the
\* j-th element of each list and the other columns as they are.
StoresExploded(input, outs, after) ==
  /\ Len(after) = Len(Rows) + Before(outs, Len(input) + 1)
  /\ \A k \in 1..Len(Rows) : after[k] = Rows[k]
  /\ \A i \in 1..Len(input) : \A j \in 1..RowLen(outs[i]) :
       after[Len(Rows) + Before(outs, i) + j] =
         [idx |-> Len(Rows) + Before(outs, i) + j - 1,
          x |-> input[i], c |-> VOCS.constants.c,
          y1 |-> Pick(outs[i].y1, j), y2 |-> Pick(outs[i].y2, j)]

\* The calls evaluate_data(input) answered by outs, each with its outcome.
Calls ==
  UNION {{<<input, outs, evaluate_data(self, dumped,
                           [i \in 1..Len(input) |-> [x |-> input[i]]], outs)>> :
            outs \in Answers(Len(input))} : input \in Inputs}

\* C7 as claimed: a result row whose lists agree in length L is stored as L
\* rows, the i-th with the i-th element of each list and the other columns
\* unchanged; when the lists of a row disagree the call fails with
\* ShapeError and stores nothing.
\* Fails: strict output validation comes first and may fail the call.
C7_ExplodesOrShapeError ==
  \A call \in Calls :
    call[3].evaluated =>
      IF \E i \in 1..Len(call[1]) : Ragged(call[2][i])
      THEN call[3].err = "ShapeError" /\ call[3].X.data = data
      ELSE call[3].err \notin ValidationErrors =>
             StoresExploded(call[1], call[2], Get(call[3].X.data))

\* C7 amended: in a call that stores its batch, a result row whose lists
\* agree in length L is stored as L rows, the i-th with the i-th element of
\* each list and the other columns unchanged; when the lists of a row
\* disagree the call stores nothing and fails, with ShapeError unless strict
\* output validation has already failed it with OutputValidationError.
C7_ExplodesOrFails ==
  \A call \in Calls :
    call[3].evaluated =>
      IF \E i \in 1..Len(call[1]) : Ragged(call[2][i])
      THEN /\ call[3].X.data = data
           /\ call[3].err =
                IF strict /\ \E i \in 1..Len(call[1]) :
                               call[2][i].y1 = NaN \/ call[2][i].y2 = NaN
                THEN "OutputValidationError" ELSE "ShapeError"
      ELSE call[3].err \notin ValidationErrors =>
             StoresExploded(call[1], call[2], Get(call[3].X.data))

\* C7 witness: one candidate's result was stored as MaxListLen rows, the
\* list column spread over them and the scalar one repeated.
C7_Witness ==
  /\ last.op = "evaluate_data" /\ last.err = "ok" /\ last.input = <<23>>
  /\ Len(Rows) = MaxListLen
  /\ \A j \in 1..MaxListLen :
       Rows[j].x = 23 /\ Rows[j].y1 = Scalar(10 * j) /\ Rows[j].y2 = Scalar(10)

\* C11: remove_data(indices, inplace=False) with labels that exist hands back
\* the rows whose label is not in indices, in their order, relabelled 0..m-1,
\* and leaves the Dataset and the generator's copy as they were; no later
\* operation of the driver changes the table handed back.
C11_CopyDetached ==
  [][IF last'.op = "remove_data_copy" /\ last'.err = "ok"
     THEN /\ data' = data /\ generator' = generator
          /\ returned' = Some(Reindex(Drop(Get(data), Range(last'.input)), 0))
     ELSE returned' = returned]_vars

\* C11 witness: a copy without row 0 was taken from two rows, and the Dataset
\* was cleared afterwards; the copy still holds the other row as row 0.
C11_Witness ==
  /\ last.op = "reset_data" /\ Rows = <<>>
  /\ ~IsNone(returned) /\ Len(Get(returned)) = 1
  /\ Get(returned)[1].idx = 0 /\ Get(returned)[1].x = 23

\* C12: run() called with no cap set fails at once with the configuration
\* error (the ValueError of its first test): the generator is not asked, the
\* evaluator is not called, and the Dataset, the generator's copy and the
\* dump target are as they were.
C12_RunNeedsCap ==
  [][(pc = "idle" /\ last'.op = "run" /\ IsNone(max_evaluations)) =>
       /\ pc' = "idle" /\ last'.err = "ValueError" /\ ~last'.evaluated
       /\ generator' = generator /\ data' = data /\ dumped' = dumped]_vars

\* C12 witness: run() failed for want of a cap on a driver that holds rows
\* and whose generator still has candidates.
C12_Witness ==
  /\ last.op = "run" /\ last.err = "ValueError" /\ IsNone(max_evaluations)
  /\ Len(Rows) >= 1 /\ generator.left > 0 /\ pc = "idle"

\* C13: evaluate(record), whether it succeeds or fails, leaves the Dataset,
\* the generator and its copy, and the dump target as they were, and the
\* caller's record as the caller wrote it.
C13_EvaluateStoresNothing ==
  [][last'.op = "evaluate" =>
       /\ data' = data /\ generator' = generator /\ dumped' = dumped
       /\ last'.input_dict = [x |-> last'.input[1]]]_vars

\* C13 witness: a record was evaluated by a driver that holds rows and has
\* written its dump target.
C13_Witness ==
  /\ last.op = "evaluate" /\ last.err = "ok" /\ last.evaluated
  /\ Len(Rows) >= 1 /\ ~IsNone(dumped)

\* The driver in the next state.
SelfAfter ==
  [generator |-> generator', evaluator |-> evaluator', strict |-> strict',
   dump_file |-> dump_file', max_evaluations |-> max_evaluations', data |-> data']

\* An evaluate_data call, made directly or by step or by run's step, has
\* succeeded in this step.
Stored ==
  \/ last'.op \in {"evaluate_data", "step"} /\ last'.err = "ok" /\ last'.evaluated
  \/ pc = "run" /\ pc' = "run" /\ data' # data

C15_StepForwardsAll ==
  [][last'.op = "step" =>
       /\ last'.n_generate = evaluator.max_workers
       /\ Len(last'.input) <= evaluator.max_workers
       /\ generator'.left = generator.left - Len(last'.input)
       /\ IF last'.input = <<>>
          THEN /\ ~last'.evaluated /\ last'.err = "ok"
               /\ data' = data /\ generator' = generator /\ dumped' = dumped
          ELSE /\ last'.evaluated
               /\ IF last'.err \in ValidationErrors THEN data' = data
                  ELSE /\ Len(RowsAfter) >= Len(Rows) + Len(last'.input)
                       /\ \A i \in 1..Len(Rows) : RowsAfter[i] = Rows[i]
                       /\ \A x \in Range(last'.input) :
                            \E i \in (Len(Rows) + 1)..Len(RowsAfter) :
                              RowsAfter[i].x = x]_vars

\* C15 witness: a step forwarded as many candidates as the evaluator has
\* workers, more than one, and their rows were stored.
C15_Witness ==
  /\ last.op = "step" /\ last.err = "ok" /\ last.evaluated
  /\ Len(last.input) = evaluator.max_workers /\ evaluator.max_workers > 1
  /\ Len(Rows) >= Len(last.input)

\* The rows a driver holds, and those its generator holds.
RowsOf(X) == IF IsNone(X.data) THEN <<>> ELSE Get(X.data)
MirrorOf(X) == IF IsNone(X.generator.data) THEN <<>> ELSE Get(X.generator.data)

\* A result of the batch lacks a declared output or holds a non-numeric one.
Incomplete(outs) == \E i \in 1..Len(outs) : outs[i].y1 = NaN \/ outs[i].y2 = NaN

\* C16 as claimed: strict is on unless the caller turns it off, and it alone
\* gates output validation: a batch with a missing or non-numeric declared
\* output fails with OutputValidationError and stores nothing when strict is
\* on; when strict is off it raises no output-validation error and its rows
\* are appended.
\* Fails: with strict off the batch still goes through explosion, which
\* refuses lists of unequal length.
C16_StrictGatesOutputs ==
  /\ (last.op = "init" /\ IsNone(last.strict)) => strict
  /\ \A call \in Calls :
       (call[3].evaluated /\ Incomplete(call[2])) =>
         IF strict
         THEN /\ call[3].err = "OutputValidationError"
              /\ call[3].X.data = data /\ call[3].X.generator = generator
         ELSE /\ call[3].err # "OutputValidationError"
              /\ StoresExploded(call[1], call[2], RowsOf(call[3].X))
              /\ call[3].X.generator.data = call[3].X.data

\* C16 amended: strict is on unless the caller turns it off, and it alone
\* gates output validation: a batch with a missing or non-numeric declared
\* output fails with OutputValidationError and stores nothing when strict is
\* on; when strict is off it raises no output-validation error, and its rows
\* are appended to the Dataset and the generator's copy unless the lists of
\* one of its rows differ in length, when it fails with ShapeError and stores
\* nothing.
C16_StrictGatesValidation ==
  /\ (last.op = "init" /\ IsNone(last.strict)) => strict
  /\ \A call \in Calls :
       (call[3].evaluated /\ Incomplete(call[2])) =>
         IF strict
         THEN /\ call[3].err = "OutputValidationError"
              /\ call[3].X.data = data /\ call[3].X.generator = generator
         ELSE IF \E i \in 1..Len(call[1]) : Ragged(call[2][i])
         THEN /\ call[3].err = "ShapeError"
              /\ call[3].X.data = data /\ call[3].X.generator = generator
         ELSE /\ call[3].err # "OutputValidationError"
              /\ StoresExploded(call[1], call[2], RowsOf(call[3].X))
              /\ Concat(MirrorOf(self),
                        SubSeq(RowsOf(call[3].X), Len(Rows) + 1,
                               Len(RowsOf(call[3].X))))
                   = MirrorOf(call[3].X)

\* C16 witness: with strict off a result with a non-numeric output was stored.
C16_Witness ==
  /\ ~strict /\ last.op = "evaluate_data" /\ last.err = "ok"
  /\ Len(Rows) >= 1 /\ Rows[Len(Rows)].y1 = NaN
  /\ generator.data = data

\* C17: across every operation other than remove_data(inplace=True) and
\* reset_data (add_data, evaluate_data, evaluate, step, run and its steps)
\* the Dataset before is a prefix of the Dataset after: the rows it held keep
\* their label, values and place, and the row count does not go down.
C17_AppendOnly ==
  [][last'.op \notin {"remove_data", "reset_data"} =>
       /\ Len(Rows) <= Len(RowsAfter)
       /\ \A i \in 1..Len(Rows) : RowsAfter[i] = Rows[i]
       /\ IsNone(data') => IsNone(data)]_vars

\* C17 witness: a step appended the generator's candidate after a row that
\* was there before, which is still the first.
C17_Witness ==
  /\ last.op = "step" /\ last.err = "ok" /\ Len(last.input) = 1
  /\ Len(Rows) = 2 /\ Rows[1].x = 23 /\ Rows[2].x = Proposal

\* The largest label of a table that has rows.
MaxLabel(t) == CHOOSE m \in Range(Labels(t)) : \A l \in Range(Labels(t)) : l <= m

\* C18: add_data labels the k new rows m+1, ..., m+k, m the largest label in
\* the Dataset (0..k-1 when the Dataset is empty or absent), whatever labels
\* they came with, for every Dataset the driver can hold.
\* Fails: the new labels start at the row count, which is not m+1 for a
\* supplied table whose labels are not 0..n-1.
C18_AddContinuesLabels ==
  [][last'.op = "add_data" =>
       LET start == IF Rows = <<>> THEN 0 ELSE MaxLabel(Rows) + 1
       IN \A i \in (Len(Rows) + 1)..Len(RowsAfter) :
            RowsAfter[i].idx = start + (i - Len(Rows)) - 1]_vars

\* C19: the Dataset and the generator's copy change as one unit.  A thread
\* about to call the driver never finds one changed without the other,
\* whether another thread is inside add_data or an add_data call has ended
\* with the generator's add_data raising; and once all add_data calls have
\* ended, every row handed in is in the Dataset and no label repeats.
\* Fails: add_data assigns self.data, then calls the generator, under no lock.
C19_OneUnit ==
  /\ (\E t \in 1..MaxThreads : threads[t].line = "idle") => generator.data = data
  /\ (\A t \in 1..MaxThreads : threads[t].line = "idle") =>
       (Len(Rows) = Len(Get(added)) /\ Unique(Rows))

\* C20: the generator's copy is updated through the method that goes with the
\* generator's kind: set_data and never add_data for a state-owning
\* generator, add_data and never set_data for any other, at construction
\* from a supplied table and in every later add_data.
\* Fails: Xopt.add_data calls the generator's add_data whatever its kind.
C20_MirrorByCapability ==
  /\ StateOwner(generator.name) => generator.mirrored_by # "add_data"
  /\ ~StateOwner(generator.name) => generator.mirrored_by # "set_data"

\* C21: evaluate(record) hands the evaluator the record with the declared
\* constants merged in, the record that was validated, as evaluate_data hands
\* it rows with the constant columns; a record that fails validation never
\* reaches the evaluator.
\* Fails: the constants go into a copy, and the evaluator is called with the
\* caller's record, which has none.
C21_EvaluatePassesConstants ==
  [][/\ last'.op = "evaluate" =>
          IF validate_input_data(<<[x |-> last'.input[1], c |-> VOCS.constants.c]>>)
          THEN /\ last'.evaluated
               /\ last'.passed = Some([x |-> last'.input[1], c |-> VOCS.constants.c])
          ELSE /\ ~last'.evaluated /\ IsNone(last'.passed)
               /\ last'.err = "ValidationError"
     /\ (last'.op = "evaluate_data" /\ last'.err = "ok") =>
          \A i \in (Len(Rows) + 1)..Len(RowsAfter) : RowsAfter[i].c = VOCS.constants.c]_vars

====
